---- MODULE Spec2Model ----
(***************************************************************************)
(* Model of github_scraper/scrape.py: the directory crawler                *)
(* (find_python_files_in_repo / explore_directory) and the comment         *)
(* scanner (extract_comments_from_code).                                   *)
(*                                                                         *)
(* Strings are sequences of tokens.  A token stands for a fixed piece of   *)
(* text ("/", "tree", ".py", "?", ...); the tokens are chosen so that the  *)
(* substring relations the code tests ('/tree/' in href, skip in dir_name, *)
(* endswith('.py'), ...) are relations between token sequences.            *)
(***************************************************************************)
EXTENDS Integers, Sequences, FiniteSets, Bags, TLC

----------------------------------------------------------------------------
(* Program constants *)

MAX_FILES_PER_REPO == 5

MaxDepthOff == 3 + 1
MaxDepth == 3

BranchCapOff == 10 + 1
BranchCap == 10

(* Bounds of the model *)

\* hyperlinks on one directory page
MaxLinks == 3

\* hyperlinks on one directory page of the web of nested directories
MaxChainLinks == 1

\* lines of one scanned text
MaxLines == 3

----------------------------------------------------------------------------
(* String helpers (Python str operations on token sequences) *)

\* s[i:] for a 1-based i
Drop(s, i) == SubSeq(s, i, Len(s))

\* s.startswith(p)
StartsWith(s, p) == Len(s) >= Len(p) /\ SubSeq(s, 1, Len(p)) = p

\* s.endswith(p)
EndsWith(s, p) ==
    Len(s) >= Len(p) /\ SubSeq(s, Len(s) - Len(p) + 1, Len(s)) = p

\* p in s
Contains(s, p) ==
    \E i \in 1..(Len(s) - Len(p) + 1) : SubSeq(s, i, i + Len(p) - 1) = p

\* s.split(p)[0]
SplitFirst(s, p) ==
    IF Contains(s, p)
    THEN LET i == CHOOSE j \in 1..(Len(s) - Len(p) + 1) :
                    /\ SubSeq(s, j, j + Len(p) - 1) = p
                    /\ \A h \in 1..(j - 1) : SubSeq(s, h, h + Len(p) - 1) # p
         IN  SubSeq(s, 1, i - 1)
    ELSE s

\* s.split(p)[-1]: the text after the last of the non-overlapping
\* occurrences of p, found left to right
RECURSIVE SplitLast(_, _)
SplitLast(s, p) ==
    IF Contains(s, p)
    THEN SplitLast(Drop(s, Len(SplitFirst(s, p)) + Len(p) + 1), p)
    ELSE s

\* len(s.split(p))
RECURSIVE SplitCount(_, _)
SplitCount(s, p) ==
    IF Contains(s, p)
    THEN 1 + SplitCount(Drop(s, Len(SplitFirst(s, p)) + Len(p) + 1), p)
    ELSE 1

\* the lower-case form of one token
LowerTok(t) ==
    CASE t = ".GIT" -> ".git"
      [] t = "__PyCache__" -> "__pycache__"
      [] t = "Node_Modules" -> "node_modules"
      [] OTHER -> t

\* s.lower()
Lower(s) == [i \in 1..Len(s) |-> LowerTok(s[i])]

\* the denylist names that occur inside the text of one token
TokText(t) ==
    CASE t = ".github" -> {".github", ".git"}
      [] t = "venv" -> {"venv", "env"}
      [] OTHER -> {t}

\* skip in s, for a skip that is one name of the denylist
HasName(s, skip) == \E i \in 1..Len(s) : skip \in TokText(s[i])

----------------------------------------------------------------------------
(* URLs *)

Slash == <<"/">>
TreeMark == <<"/", "tree", "/">>
BlobMark == <<"/", "blob", "/">>
PySuffix == <<".py">>
Host == <<"https://github.com">>

\* a file name with the .py suffix
Py(n) == <<n, ".py">>

\* site-relative href of a directory / of a file of the repository o/r, branch m
DirHref(path) == <<"/", "o", "/", "r", "/", "tree", "/", "m", "/">> \o path
FileHref(path) == <<"/", "o", "/", "r", "/", "blob", "/", "m", "/">> \o path

\* the repository root handed to find_python_files_in_repo
repo_url == Host \o <<"/", "o", "/", "r">>

skip_dirs == <<"node_modules", ".git", "__pycache__", "venv", "env",
               "dist", "build", ".github", ".vscode", ".idea">>

\* 'github.com' in href or href.startswith('/')
IsGithubLink(href) == Contains(href, Host) \/ StartsWith(href, Slash)

\* f"https://github.com{href}" if href.startswith('/') else href
AbsoluteOff(href) == href
Absolute(href) == IF StartsWith(href, Slash) THEN Host \o href ELSE href

\* the file branch: '/blob/' in href and '.py' in href
IsBlobPy(href) == Contains(href, BlobMark) /\ Contains(href, PySuffix)

\* file_name = href.split('/')[-1]
FileName(href) == SplitLast(href, Slash)

\* dir_name = href.split('/tree/')[-1].split('/')[-1].lower()
DirName(href) == Lower(SplitLast(SplitLast(href, TreeMark), Slash))

\* any(skip in dir_name for skip in skip_dirs)
Skippable(href) ==
    \E i \in 1..Len(skip_dirs) : HasName(DirName(href), skip_dirs[i])

\* full_dir_url: absolute, cut at the first '?' and then at the first '#'
FullDirUrl(href) == SplitFirst(SplitFirst(Absolute(href), <<"?">>), <<"#">>)

----------------------------------------------------------------------------
(* The pages the crawl may meet.  A web is a vocabulary of hrefs and a      *)
(* page length; every page of the crawl is a sequence of at most that many  *)
(* hrefs of the vocabulary, so every link graph over the vocabulary         *)
(* (cycles, self links, duplicate links) is covered.  A web with a page     *)
(* has that page, read without failure, as the listing of the repository    *)
(* root, and no link on the pages below it.                                 *)

\* quota, order, siblings: six files and two directories
FlatWeb ==
    {FileHref(Py(n)) : n \in {"a", "b", "c", "d", "e", "f"}}
        \cup {DirHref(<<"s">>), DirHref(<<"t">>)}

\* depth, cycles: four directories that may link to each other
DeepWeb ==
    {DirHref(<<d>>) : d \in {"s", "t", "u", "v"}}
        \cup {Host \o DirHref(<<"s">>), FileHref(Py("a"))}

\* the denylist
FilterWeb ==
    {DirHref(<<"__pycache__">>), DirHref(<<".GIT">>),
     DirHref(<<"s", "/", "Node_Modules">>), DirHref(<<"my", "venv", "2">>),
     DirHref(<<".github">>), DirHref(<<"node_modules", "/", "s">>),
     DirHref(<<"s">>), FileHref(Py("a")),
     FileHref(<<"__pycache__", "/", "b", ".py">>)}

\* queries, fragments, absolute forms, links that are no candidates
NormWeb ==
    {DirHref(<<"s", "?", "q">>), DirHref(<<"s", "#", "x">>), DirHref(<<"s">>),
     DirHref(<<"t", "?", "q", "#", "x">>),
     FileHref(Py("a")), Host \o FileHref(Py("a")),
     FileHref(<<"a", ".py", "?", "q">>), FileHref(<<"a", ".py", "c">>),
     FileHref(<<"a", ".py", "#", "x", "/", "b", ".py">>),
     <<>>, <<"http://x.org", "/", "blob", "/", "a", ".py">>,
     <<"/", "o", "/", "r">>}

\* hrefs whose query or trailing slash follows the directory name
SlashWeb ==
    {DirHref(<<".git", "?", "p", "/", "q">>), DirHref(<<"__pycache__", "/">>),
     DirHref(<<"__pycache__">>), FileHref(Py("a"))}

\* more directories on one page than a frame explores: eleven directories,
\* the first linked twice, and a directory of the denylist
WidePage ==
    <<DirHref(<<"w1">>), DirHref(<<"w1", "?", "q">>), DirHref(<<".git">>),
      DirHref(<<"w2">>), DirHref(<<"w3">>), DirHref(<<"w4">>),
      DirHref(<<"w5">>), DirHref(<<"w6">>), DirHref(<<"w7">>),
      DirHref(<<"w8">>), DirHref(<<"w9">>), DirHref(<<"w10">>),
      DirHref(<<"w11">>)>>

WideWeb == {WidePage[j] : j \in 1..Len(WidePage)}

Webs ==
    <<[hrefs |-> FlatWeb, links |-> MaxLinks, page |-> <<>>],
      [hrefs |-> DeepWeb, links |-> MaxChainLinks, page |-> <<>>],
      [hrefs |-> FilterWeb, links |-> MaxLinks, page |-> <<>>],
      [hrefs |-> NormWeb, links |-> MaxLinks, page |-> <<>>],
      [hrefs |-> SlashWeb, links |-> MaxLinks, page |-> <<>>],
      [hrefs |-> WideWeb, links |-> Len(WidePage), page |-> WidePage]>>

AllHrefs == UNION {Webs[i].hrefs : i \in 1..Len(Webs)}

----------------------------------------------------------------------------
(* The entry loop of explore_directory, per href *)

\* The file branch of the entry loop is taken and passes the suffix test.
IsFileCandidate(href) ==
    /\ href # <<>> /\ IsGithubLink(href)
    /\ IsBlobPy(href)
    /\ EndsWith(FileName(href), PySuffix)

\* The directory branch of the entry loop is taken (but for its depth test)
\* and the directory is not one of skip_dirs.
IsDirCandidate(href) ==
    /\ href # <<>> /\ IsGithubLink(href)
    /\ ~IsBlobPy(href)
    /\ Contains(href, TreeMark)
    /\ SplitCount(href, TreeMark) > 1
    /\ ~Skippable(href)

\* What the entry loop derives from each href.
Classify ==
    [href \in AllHrefs |->
        [is_file |-> IsFileCandidate(href),
         file_url |-> Absolute(href),
         file_name |-> FileName(href),
         is_dir |-> IsDirCandidate(href),
         full_dir_url |-> FullDirUrl(href)]]

----------------------------------------------------------------------------
(* extract_comments_from_code: lines *)

\* the tokens of a line: white space, the single-line marker, the two block
\* delimiters, any other text
Blank == " "
Hash == "#"
DQ == "\"\"\""
SQ == "'''"
Code == "x"

\* the lines a scanned text is made of, one or more for each way through the
\* tests of the scanner: blank lines, code, single-line comments (indented,
\* holding a delimiter, after code), a delimiter once, twice and three
\* times, both delimiters in either order, trailing white space
Lines ==
    {<<>>, <<Blank>>,
     <<Code>>, <<Code, Blank>>, <<Blank, Code>>,
     <<Hash>>, <<Hash, Code>>, <<Blank, Hash>>, <<Code, Hash>>,
     <<Hash, DQ>>, <<Blank, Hash, SQ>>,
     <<DQ>>, <<SQ>>, <<DQ, Code>>, <<Code, DQ>>, <<SQ, Blank>>,
     <<DQ, DQ>>, <<SQ, SQ>>, <<DQ, Code, DQ>>, <<DQ, DQ, DQ>>,
     <<DQ, SQ>>, <<SQ, DQ>>, <<DQ, SQ, SQ>>, <<SQ, DQ, DQ>>}

\* line.rstrip()
RStripNone(l) == l
RECURSIVE RStrip(_)
RStrip(l) ==
    IF l # <<>> /\ l[Len(l)] = Blank THEN RStrip(SubSeq(l, 1, Len(l) - 1)) ELSE l

\* line.lstrip()
RECURSIVE LStrip(_)
LStrip(l) == IF l # <<>> /\ l[1] = Blank THEN LStrip(Tail(l)) ELSE l

\* line.strip()
StripOff(l) == l
Strip(l) == LStrip(RStrip(l))

\* line.count(char)
Count(l, char) == Cardinality({j \in 1..Len(l) : l[j] = char})

\* char in line
HasTok(l, char) == \E j \in 1..Len(l) : l[j] = char

\* the delimiter the docstring branch works with: '"""' if it is in the
\* line, else "'''"
CharOfSingleFirst(l) == IF HasTok(l, SQ) THEN SQ ELSE DQ
CharOf(l) == IF HasTok(l, DQ) THEN DQ ELSE SQ

\* docstring_char = None
None == "None"

\* The body of the loop with a last branch that appends every remaining line.
StepEmitAll(in_doc, doc_char, l) ==
    IF Strip(l) = <<>>
    THEN [in_docstring |-> in_doc, docstring_char |-> doc_char, emit |-> FALSE]
    ELSE IF StartsWith(Strip(l), <<Hash>>)
    THEN [in_docstring |-> in_doc, docstring_char |-> doc_char, emit |-> TRUE]
    ELSE IF HasTok(l, DQ) \/ HasTok(l, SQ)
    THEN IF ~in_doc
         THEN [in_docstring |-> Count(l, CharOf(l)) # 2,
               docstring_char |-> CharOf(l), emit |-> TRUE]
         ELSE [in_docstring |-> CharOf(l) # doc_char,
               docstring_char |-> doc_char, emit |-> TRUE]
    ELSE [in_docstring |-> in_doc, docstring_char |-> doc_char, emit |-> TRUE]

\* The body of the loop in which a line with a delimiter of either style
\* closes the open block.
StepCloseAny(in_doc, doc_char, l) ==
    IF Strip(l) = <<>>
    THEN [in_docstring |-> in_doc, docstring_char |-> doc_char, emit |-> FALSE]
    ELSE IF StartsWith(Strip(l), <<Hash>>)
    THEN [in_docstring |-> in_doc, docstring_char |-> doc_char, emit |-> TRUE]
    ELSE IF HasTok(l, DQ) \/ HasTok(l, SQ)
    THEN IF ~in_doc
         THEN [in_docstring |-> Count(l, CharOf(l)) # 2,
               docstring_char |-> CharOf(l), emit |-> TRUE]
         ELSE [in_docstring |-> FALSE,
               docstring_char |-> doc_char, emit |-> TRUE]
    ELSE [in_docstring |-> in_doc, docstring_char |-> doc_char, emit |-> in_doc]

\* The body of the loop on one line: the scan state after it and whether the
\* line was appended to comments.
Step(in_doc, doc_char, l) ==
    IF Strip(l) = <<>>
    THEN [in_docstring |-> in_doc, docstring_char |-> doc_char, emit |-> FALSE]
    ELSE IF StartsWith(Strip(l), <<Hash>>)
    THEN [in_docstring |-> in_doc, docstring_char |-> doc_char, emit |-> TRUE]
    ELSE IF HasTok(l, DQ) \/ HasTok(l, SQ)
    THEN IF ~in_doc
         THEN [in_docstring |-> Count(l, CharOf(l)) # 2,
               docstring_char |-> CharOf(l), emit |-> TRUE]
         ELSE [in_docstring |-> CharOf(l) # doc_char,
               docstring_char |-> doc_char, emit |-> TRUE]
    ELSE [in_docstring |-> in_doc, docstring_char |-> doc_char, emit |-> in_doc]

----------------------------------------------------------------------------
(* State of find_python_files_in_repo *)

VARIABLES
    web,          \* index in Webs of the web of this crawl
    file_urls,    \* the dict, as the sequence of its items [url, name]
    visited_urls, \* the set
    stack,        \* the frames of explore_directory, innermost last
    status,       \* "crawl" | "done": find_python_files_in_repo has returned
    fetched,      \* history: the bag of the dir_url of every page.goto
    failed,       \* history: the dir_url whose page.goto raised
    deepest,      \* history: the greatest depth of a frame that added a file
    seen,         \* history: the file identifiers, in the order first observed
    reseen        \* history: an identifier of seen has been observed again

crawlVars ==
    <<web, file_urls, visited_urls, stack, status,
      fetched, failed, deepest, seen, reseen>>

(* State of extract_comments_from_code *)

VARIABLES
    scan,           \* "idle" | "loop" | "returned"
    lines,          \* the lines of code_text.split('\n') read so far; the
                    \* rest of the text is chosen as the loop reaches it
    prev_open,      \* history: the call before this one returned with
                    \* in_docstring = True
    lineno,         \* i: the number of the line of the last pass of the loop
    line,           \* the line of the last pass of the loop
    in_docstring,
    docstring_char,
    comments        \* the list of (i, line.rstrip())

scanVars ==
    <<scan, lines, prev_open, lineno, line, in_docstring, docstring_char,
      comments>>

(* State of the per-repository part of main *)

VARIABLES
    main,         \* "idle" | "call" | "files" | "end": where main is in the
                  \* body of its loop over repos
    file_num,     \* the number of passes of the loop over the files
    code_text,    \* the text of the body of the last raw page read
    all_comments, \* the rows (repo_name, file_name, line_no, comment)
    summary,      \* file_processing_summary[repo_name]
    file_errors   \* history: the file_num of the passes that ended in the
                  \* except clause of the loop

mainVars == <<main, file_num, code_text, all_comments, summary, file_errors>>

vars == <<crawlVars, scanVars, mainVars>>

\* file_url in file_urls
Keys(d) == {d[j].url : j \in 1..Len(d)}

\* x in directories
InList(x, list) == \E j \in 1..Len(list) : list[j] = x

\* len(file_urls) >= MAX_FILES_PER_REPO
QuotaStrict(d) == Len(d) > MAX_FILES_PER_REPO
QuotaReached(d) == Len(d) >= MAX_FILES_PER_REPO

\* depth > 3
TooDeep(depth) == depth > MaxDepth

\* depth < 3
MayDescendAtMax(depth) == depth <= MaxDepth
MayDescend(depth) == depth < MaxDepth

\* dir_url in visited_urls
NeverVisited(dir_url, visited) == FALSE
AlreadyVisited(dir_url, visited) == dir_url \in visited

\* a call explore_directory(dir_url, depth), before its first statement
Frame(dir_url, depth) ==
    [dir_url |-> dir_url, depth |-> depth, pc |-> "enter", n |-> 0,
     directories |-> <<>>, k |-> 1]

Top == stack[Len(stack)]

\* len(entries) of the page of the frame f, at most
PageLen(f) ==
    IF Webs[web].page = <<>> \/ f.depth = 0 THEN Webs[web].links ELSE 0

\* the hrefs the entry after the first n entries of the page of f may have
EntriesAt(f) ==
    IF Webs[web].page = <<>> THEN Webs[web].hrefs ELSE {Webs[web].page[f.n + 1]}

\* the innermost frame returns
Pop == SubSeq(stack, 1, Len(stack) - 1)

\* the innermost frame goes on as f
Replace(f) == [stack EXCEPT ![Len(stack)] = f]

Max(a, b) == IF a >= b THEN a ELSE b

\* the identifier of a link: its absolute form
Identifier(href) == IF href # <<>> /\ href[1] = "/" THEN Host \o href ELSE href

CrawlInit ==
    /\ web \in 1..Len(Webs)
    /\ file_urls = <<>>
    /\ visited_urls = {}
    /\ stack = <<Frame(repo_url, 0)>>
    /\ status = "crawl"
    /\ fetched = EmptyBag
    /\ failed = {}
    /\ deepest = -1
    /\ seen = <<>>
    /\ reseen = FALSE

\* extract_comments_from_code is not running
ScanIdle ==
    /\ scan = "idle" /\ lines = <<>> /\ prev_open = FALSE
    /\ lineno = 0 /\ line = <<>>
    /\ in_docstring = FALSE /\ docstring_char = None /\ comments = <<>>

\* the text "": one line without a character
EmptyText == << <<>> >>

\* file_processing_summary[repo_name] as set at line 336
NewSummary ==
    [files_found |-> 0, files_processed |-> 0, files_with_comments |-> 0,
     files_without_comments |-> 0, total_comments |-> 0]

\* main is not running
MainIdle ==
    /\ main = "idle" /\ file_num = 0 /\ code_text = EmptyText
    /\ all_comments = <<>> /\ summary = NewSummary /\ file_errors = {}

Init == CrawlInit /\ ScanIdle /\ MainIdle

----------------------------------------------------------------------------
(* explore_directory *)

\* The head of the function without visited_urls.add.
EnterNoAdd ==
    /\ status = "crawl" /\ stack # <<>> /\ Top.pc = "enter"
    /\ IF \/ QuotaReached(file_urls)
          \/ TooDeep(Top.depth)
          \/ AlreadyVisited(Top.dir_url, visited_urls)
       THEN stack' = Pop
       ELSE stack' = Replace([Top EXCEPT !.pc = "fetch"])
    /\ UNCHANGED <<web, file_urls, visited_urls, status>>
    /\ UNCHANGED <<fetched, failed, deepest, seen, reseen>>
    /\ UNCHANGED <<scanVars, mainVars>>

\* The three prunes at the head of the function, then visited_urls.add.
Enter ==
    /\ status = "crawl" /\ stack # <<>> /\ Top.pc = "enter"
    /\ IF \/ QuotaReached(file_urls)
          \/ TooDeep(Top.depth)
          \/ AlreadyVisited(Top.dir_url, visited_urls)
       THEN /\ stack' = Pop
            /\ UNCHANGED visited_urls
       ELSE /\ visited_urls' = visited_urls \cup {Top.dir_url}
            /\ stack' = Replace([Top EXCEPT !.pc = "fetch"])
    /\ UNCHANGED <<web, file_urls, status, fetched, failed, deepest, seen, reseen>>
    /\ UNCHANGED <<scanVars, mainVars>>

\* page.goto(dir_url) and page.locator("a[href]").all() succeed.
FetchOk ==
    /\ status = "crawl" /\ stack # <<>> /\ Top.pc = "fetch"
    /\ fetched' = fetched (+) SetToBag({Top.dir_url})
    /\ stack' = Replace([Top EXCEPT !.pc = "scan", !.n = 0, !.directories = <<>>])
    /\ UNCHANGED <<web, file_urls, visited_urls, status, failed, deepest, seen, reseen>>
    /\ UNCHANGED <<scanVars, mainVars>>

\* The exception of page.goto leaves explore_directory and ends the crawl.
FetchFailRaises ==
    /\ status = "crawl" /\ stack # <<>> /\ Top.pc = "fetch"
    /\ fetched' = fetched (+) SetToBag({Top.dir_url})
    /\ failed' = failed \cup {Top.dir_url}
    /\ stack' = <<>>
    /\ status' = "raised"
    /\ UNCHANGED <<web, file_urls, visited_urls, deepest, seen, reseen>>
    /\ UNCHANGED <<scanVars, mainVars>>

\* page.goto(dir_url) raises: the except clause of the frame logs, and the
\* frame returns.
FetchFail ==
    /\ status = "crawl" /\ stack # <<>> /\ Top.pc = "fetch"
    /\ fetched' = fetched (+) SetToBag({Top.dir_url})
    /\ failed' = failed \cup {Top.dir_url}
    /\ stack' = Pop
    /\ UNCHANGED <<web, file_urls, visited_urls, status, deepest, seen, reseen>>
    /\ UNCHANGED <<scanVars, mainVars>>

\* One pass of the loop over the entries of the page, on the entry href.
ScanEntry(href) ==
    /\ status = "crawl" /\ stack # <<>> /\ Top.pc = "scan"
    /\ Top.n < PageLen(Top)
    /\ href \in EntriesAt(Top)
    /\ LET c == Classify[href] IN
        /\ IF c.is_file /\ c.file_url \notin Keys(file_urls)
           THEN LET d == Append(file_urls,
                                [url |-> c.file_url, name |-> c.file_name])
                IN  /\ file_urls' = d
                    /\ deepest' = Max(deepest, Top.depth)
                    /\ stack' = IF QuotaReached(d)
                                THEN Pop
                                ELSE Replace([Top EXCEPT !.n = @ + 1])
           ELSE /\ UNCHANGED <<file_urls, deepest>>
                /\ stack' = IF /\ c.is_dir /\ MayDescend(Top.depth)
                               /\ ~InList(c.full_dir_url, Top.directories)
                            THEN Replace([Top EXCEPT
                                     !.n = @ + 1,
                                     !.directories = Append(@, c.full_dir_url)])
                            ELSE Replace([Top EXCEPT !.n = @ + 1])
        /\ seen' = IF c.is_file /\ ~InList(Identifier(href), seen)
                   THEN Append(seen, Identifier(href))
                   ELSE seen
        /\ reseen' = (reseen \/ (c.is_file /\ InList(Identifier(href), seen)))
    /\ UNCHANGED <<web, visited_urls, status, fetched, failed>>
    /\ UNCHANGED <<scanVars, mainVars>>

\* entry.get_attribute("href") raises: the inner except clause goes on with
\* the next entry.
EntryFail ==
    /\ status = "crawl" /\ stack # <<>> /\ Top.pc = "scan"
    /\ Webs[web].page = <<>>
    /\ Top.n < PageLen(Top)
    /\ stack' = Replace([Top EXCEPT !.n = @ + 1])
    /\ UNCHANGED <<web, file_urls, visited_urls, status>>
    /\ UNCHANGED <<fetched, failed, deepest, seen, reseen>>
    /\ UNCHANGED <<scanVars, mainVars>>

\* The entries are exhausted: the frame explores its subdirectories, or
\* returns when it has none or the quota is reached.
EndScan ==
    /\ status = "crawl" /\ stack # <<>> /\ Top.pc = "scan"
    /\ stack' = IF Top.directories # <<>> /\ ~QuotaReached(file_urls)
                THEN Replace([Top EXCEPT !.pc = "recurse", !.n = 0, !.k = 1])
                ELSE Pop
    /\ UNCHANGED <<web, file_urls, visited_urls, status>>
    /\ UNCHANGED <<fetched, failed, deepest, seen, reseen>>
    /\ UNCHANGED <<scanVars, mainVars>>

\* The loop over the subdirectories without its break on the quota.
RecurseNoBreak ==
    /\ status = "crawl" /\ stack # <<>> /\ Top.pc = "recurse"
    /\ stack' = IF Top.k > Len(Top.directories) \/ Top.k > BranchCap
                THEN Pop
                ELSE Append(Replace([Top EXCEPT !.k = @ + 1]),
                            Frame(Top.directories[Top.k], Top.depth + 1))
    /\ UNCHANGED <<web, file_urls, visited_urls, status>>
    /\ UNCHANGED <<fetched, failed, deepest, seen, reseen>>
    /\ UNCHANGED <<scanVars, mainVars>>

\* The loop over the subdirectories calling on the same subdirectory again.
RecurseStuck ==
    /\ status = "crawl" /\ stack # <<>> /\ Top.pc = "recurse"
    /\ stack' = IF Top.k > Len(Top.directories) \/ Top.k > BranchCap
                THEN Pop
                ELSE IF QuotaReached(file_urls)
                THEN Pop
                ELSE Append(stack, Frame(Top.directories[Top.k], Top.depth + 1))
    /\ UNCHANGED <<web, file_urls, visited_urls, status>>
    /\ UNCHANGED <<fetched, failed, deepest, seen, reseen>>
    /\ UNCHANGED <<scanVars, mainVars>>

\* One pass of the loop over directories[:10]: break on the quota, else call
\* explore_directory(dir_url_sub, depth + 1).
Recurse ==
    /\ status = "crawl" /\ stack # <<>> /\ Top.pc = "recurse"
    /\ stack' = IF Top.k > Len(Top.directories) \/ Top.k > BranchCap
                THEN Pop
                ELSE IF QuotaReached(file_urls)
                THEN Pop
                ELSE Append(Replace([Top EXCEPT !.k = @ + 1]),
                            Frame(Top.directories[Top.k], Top.depth + 1))
    /\ UNCHANGED <<web, file_urls, visited_urls, status>>
    /\ UNCHANGED <<fetched, failed, deepest, seen, reseen>>
    /\ UNCHANGED <<scanVars, mainVars>>

\* explore_directory(repo_url) has returned: find_python_files_in_repo
\* returns file_urls.
Return ==
    /\ status = "crawl" /\ stack = <<>>
    /\ status' = "done"
    /\ UNCHANGED <<web, file_urls, visited_urls, stack>>
    /\ UNCHANGED <<fetched, failed, deepest, seen, reseen>>
    /\ UNCHANGED <<scanVars, mainVars>>

Next ==
    \/ Enter
    \/ FetchOk
    \/ FetchFail
    \/ \E href \in Webs[web].hrefs : ScanEntry(href)
    \/ EntryFail
    \/ EndScan
    \/ Recurse
    \/ Return

Spec == Init /\ [][Next]_vars

\* The crawl is one synchronous call: it goes on until it returns.
FairSpec == Spec /\ WF_vars(Next)

----------------------------------------------------------------------------
(* extract_comments_from_code *)

\* find_python_files_in_repo is not running
CrawlIdle ==
    /\ web = 1 /\ file_urls = <<>> /\ visited_urls = {} /\ stack = <<>>
    /\ status = "done" /\ fetched = EmptyBag /\ failed = {} /\ deepest = -1
    /\ seen = <<>> /\ reseen = FALSE

\* A call that goes on with the scan state of the call before it.
ScanCallKeepsState ==
    /\ scan \in {"idle", "returned"}
    /\ scan' = "loop" /\ lines' = <<>> /\ prev_open' = in_docstring
    /\ lineno' = 0 /\ line' = <<>>
    /\ comments' = <<>>
    /\ UNCHANGED <<in_docstring, docstring_char, crawlVars, mainVars>>

\* A call: comments = [], in_docstring = False, docstring_char = None.
ScanCall ==
    /\ scan \in {"idle", "returned"}
    /\ scan' = "loop" /\ lines' = <<>> /\ prev_open' = in_docstring
    /\ lineno' = 0 /\ line' = <<>>
    /\ in_docstring' = FALSE /\ docstring_char' = None /\ comments' = <<>>
    /\ UNCHANGED <<crawlVars, mainVars>>

\* One pass of the loop over enumerate(lines, 1), on the line l.
ScanLine(l) ==
    /\ scan = "loop" /\ lineno < MaxLines
    /\ lines' = Append(lines, l)
    /\ lineno' = lineno + 1 /\ line' = l
    /\ LET r == Step(in_docstring, docstring_char, l) IN
        /\ in_docstring' = r.in_docstring
        /\ docstring_char' = r.docstring_char
        /\ comments' = IF r.emit THEN Append(comments, <<lineno + 1, RStrip(l)>>)
                       ELSE comments
    /\ UNCHANGED <<scan, prev_open, crawlVars, mainVars>>

\* The lines are exhausted (code_text.split('\n') has at least one line):
\* return comments.
ScanReturn ==
    /\ scan = "loop" /\ lineno >= 1
    /\ scan' = "returned"
    /\ UNCHANGED <<lines, prev_open, lineno, line, in_docstring, docstring_char>>
    /\ UNCHANGED <<comments, crawlVars, mainVars>>

ScanInit == CrawlIdle /\ ScanIdle /\ MainIdle

ScanNext ==
    \/ ScanCall
    \/ \E l \in Lines : ScanLine(l)
    \/ ScanReturn

ScanSpec == ScanInit /\ [][ScanNext]_vars

----------------------------------------------------------------------------
(* main: the loop over the files of one repository *)

\* the least length a text must exceed to be scanned
MinTextLen == 10

repo_name == "o/r"

\* the number of characters of a token, of a line, and of a text with its
\* newlines
TokLen(t) == IF t \in {DQ, SQ} THEN 3 ELSE 1

RECURSIVE LineLen(_)
LineLen(l) == IF l = <<>> THEN 0 ELSE TokLen(Head(l)) + LineLen(Tail(l))

RECURSIVE TextLen(_)
TextLen(t) ==
    IF Len(t) = 1 THEN LineLen(t[1]) ELSE LineLen(Head(t)) + 1 + TextLen(Tail(t))

\* the rest of the loop of extract_comments_from_code, from line j on
RECURSIVE ExtractFrom(_, _, _, _)
ExtractFrom(t, j, in_doc, doc_char) ==
    IF j > Len(t) THEN <<>>
    ELSE LET r == Step(in_doc, doc_char, t[j]) IN
             (IF r.emit THEN << <<j, RStrip(t[j])>> >> ELSE <<>>)
                 \o ExtractFrom(t, j + 1, r.in_docstring, r.docstring_char)

\* the list the call returns
extract_comments_from_code(t) == ExtractFrom(t, 1, FALSE, None)

\* the texts a raw page may hold: none, a comment of 2 characters, texts of
\* 10 and of 11 characters with comments, code without a comment, a one-line
\* block with a blank line and a comment
FileTexts ==
    {EmptyText,
     << <<Hash, Code>> >>,
     << <<Hash, Code, Code, Code>>, <<DQ>>, <<Code>> >>,
     << <<Hash, Code, Code, Code, Code>>, <<DQ>>, <<Code>> >>,
     << <<Code, Code, Code, Code, Code, Code>>, <<Code, Code, Code, Code, Code>> >>,
     << <<DQ, Code, DQ>>, <<>>, <<Hash, Code>> >>}

\* the dicts find_python_files_in_repo may return: up to MAX_FILES_PER_REPO
\* files, in the order of their discovery
FoundFiles ==
    LET names == <<"a", "b", "c", "d", "e">>
        item(j) == [url |-> Identifier(FileHref(Py(names[j]))),
                    name |-> Py(names[j])]
    IN  {[j \in 1..m |-> item(j)] : m \in 0..MAX_FILES_PER_REPO}

\* list(file_urls.items())[:MAX_FILES_PER_REPO]
FilesToProcess ==
    IF Len(file_urls) <= MAX_FILES_PER_REPO
    THEN file_urls ELSE SubSeq(file_urls, 1, MAX_FILES_PER_REPO)

\* main is in the body of its loop over repos, before line 347
MainInit ==
    /\ CrawlIdle /\ ScanIdle
    /\ main = "call" /\ file_num = 0 /\ code_text = EmptyText
    /\ all_comments = <<>> /\ summary = NewSummary /\ file_errors = {}

\* find_python_files_in_repo returns; with no file main goes on to the next
\* repo.
FindFiles ==
    /\ main = "call"
    /\ \E found \in FoundFiles :
        /\ file_urls' = found
        /\ summary' = [summary EXCEPT !.files_found = Len(found)]
        /\ main' = IF found = <<>> THEN "end" ELSE "files"
    /\ file_num' = 0
    /\ UNCHANGED <<code_text, all_comments, file_errors, scanVars>>
    /\ UNCHANGED <<web, visited_urls, stack, status>>
    /\ UNCHANGED <<fetched, failed, deepest, seen, reseen>>

\* One pass of the loop over the files, the raw page being read with the
\* body text.
ProcessFile(text) ==
    /\ main = "files" /\ file_num < Len(FilesToProcess)
    /\ file_num' = file_num + 1
    /\ code_text' = text
    /\ IF text # EmptyText /\ TextLen(text) > MinTextLen
       THEN LET comments_ == extract_comments_from_code(text)
                file_name == FilesToProcess[file_num + 1].name
            IN  IF Len(comments_) > 0
                THEN /\ all_comments' = all_comments \o
                            [j \in 1..Len(comments_) |->
                                <<repo_name, file_name,
                                  comments_[j][1], comments_[j][2]>>]
                     /\ summary' = [summary EXCEPT
                            !.files_processed = @ + 1,
                            !.files_with_comments = @ + 1,
                            !.total_comments = @ + Len(comments_)]
                ELSE /\ all_comments' = all_comments
                     /\ summary' = [summary EXCEPT
                            !.files_processed = @ + 1,
                            !.files_without_comments = @ + 1]
       ELSE UNCHANGED <<all_comments, summary>>
    /\ UNCHANGED <<main, file_errors, crawlVars, scanVars>>

\* The exception of page.goto leaves the loop over the files.
FileFailRaises ==
    /\ main = "files" /\ file_num < Len(FilesToProcess)
    /\ file_num' = file_num + 1
    /\ file_errors' = file_errors \cup {file_num + 1}
    /\ main' = "end"
    /\ UNCHANGED <<code_text, all_comments, summary, crawlVars, scanVars>>

\* One pass of the loop over the files in which page.goto or inner_text
\* raises: the except clause logs and continues.
FileFail ==
    /\ main = "files" /\ file_num < Len(FilesToProcess)
    /\ file_num' = file_num + 1
    /\ file_errors' = file_errors \cup {file_num + 1}
    /\ UNCHANGED <<main, code_text, all_comments, summary, crawlVars, scanVars>>

\* The files are exhausted: the summary of the repo is printed.
EndFiles ==
    /\ main = "files" /\ file_num >= Len(FilesToProcess)
    /\ main' = "end"
    /\ UNCHANGED <<file_num, code_text, all_comments, summary, file_errors>>
    /\ UNCHANGED <<crawlVars, scanVars>>

MainNext ==
    \/ FindFiles
    \/ \E text \in FileTexts : ProcessFile(text)
    \/ FileFail
    \/ EndFiles

MainSpec == MainInit /\ [][MainNext]_vars

----------------------------------------------------------------------------
(* Properties of the crawl *)

\* the frames that have fetched their page
Fetching(f) == f.pc \in {"scan", "recurse"}

\* C1. Quota bound: in every state of the crawl, and in the mapping it
\* returns, file_urls holds at most MAX_FILES_PER_REPO entries.
C1_QuotaBound ==
    /\ Len(file_urls) <= MAX_FILES_PER_REPO
    /\ Cardinality(Keys(file_urls)) <= MAX_FILES_PER_REPO

\* the crawl has returned a full mapping, found in more than one directory
C1_Witness ==
    /\ status = "done"
    /\ Len(file_urls) = MAX_FILES_PER_REPO
    /\ Cardinality(BagToSet(fetched)) > 1

\* C2. Once the quota is reached no directory is fetched any more: every
\* step from then on leaves fetched, visited_urls and file_urls as they are,
\* starts no frame and reads no entry; it ends a frame (the remaining
\* siblings are skipped) or returns the mapping.
C2_NoFetchAfterQuota ==
    [][Len(file_urls) >= MAX_FILES_PER_REPO =>
          /\ fetched' = fetched
          /\ visited_urls' = visited_urls
          /\ file_urls' = file_urls
          /\ \/ stack # <<>> /\ stack' = Pop
             \/ stack = <<>> /\ stack' = <<>> /\ status' = "done"]_vars

\* the quota was reached below a frame that still has a sibling to explore
C2_Witness ==
    /\ Len(file_urls) >= MAX_FILES_PER_REPO
    /\ stack # <<>>
    /\ Top.pc = "recurse"
    /\ Top.k <= Len(Top.directories)

\* C3. No revisits: page.goto is issued at most once for each directory
\* identifier, failed fetches included.
C3_NoRevisit ==
    \A u \in BagToSet(fetched) : CopiesIn(u, fetched) = 1

\* a frame is entered for the directory of one of its ancestors, which was
\* fetched
C3_Witness ==
    /\ Len(stack) >= 3
    /\ Top.pc = "enter"
    /\ \E j \in 2..(Len(stack) - 1) : stack[j].dir_url = Top.dir_url
    /\ BagIn(Top.dir_url, fetched)
    /\ Len(file_urls) < MAX_FILES_PER_REPO

\* C4. Depth bound: a file is added, and a page is read, only by a frame of
\* depth at most 3, the root frame being at depth 0 and a frame at the depth
\* of its position in the chain of calls.
C4_DepthBound ==
    /\ deepest <= 3
    /\ \A j \in 1..Len(stack) :
          /\ stack[j].depth = j - 1
          /\ Fetching(stack[j]) => stack[j].depth <= 3

\* a file was added by a frame at depth 3
C4_Witness == deepest = 3

\* C5. Filter correctness: a directory whose name (the last path segment of
\* its identifier after '/tree/', lower-cased) contains a name of the
\* denylist is never fetched and never recursed into.
C5_FilterCorrect ==
    /\ \A u \in BagToSet(fetched) : u = repo_url \/ ~Skippable(u)
    /\ \A j \in 2..Len(stack) : ~Skippable(stack[j].dir_url)

\* C6. Termination: the crawl returns.
C6_Terminates == <>(status = "done")

\* the crawl has returned after a fetch failed and after it was led back to
\* a directory it had visited
C6_Witness ==
    /\ status = "done"
    /\ failed # {}
    /\ Cardinality(visited_urls) >= 3
    /\ Cardinality(visited_urls) > Cardinality(BagToSet(fetched) \ failed)

\* C7. A failing page.goto on directory D ends the frame of D and nothing
\* else: the frames of the callers are as they were, so the caller goes on
\* with the sibling after D; file_urls and visited_urls are unchanged, and
\* the crawl goes on and never ends by an exception.
C7_FetchFailureScoped ==
    [][/\ status' # "raised"
       /\ failed' # failed =>
             /\ stack # <<>> /\ Top.pc = "fetch"
             /\ failed' = failed \cup {Top.dir_url}
             /\ stack' = Pop
             /\ file_urls' = file_urls
             /\ visited_urls' = visited_urls
             /\ status' = "crawl"
             /\ Len(stack) >= 2 =>
                   LET p == stack[Len(stack) - 1] IN
                       /\ p.pc = "recurse"
                       /\ p.directories[p.k - 1] = Top.dir_url]_vars

\* after the fetch of the first subdirectory failed, the caller has gone on
\* to fetch the second, with the files found before
C7_Witness ==
    /\ Len(stack) >= 2
    /\ LET p == stack[Len(stack) - 1] IN
           /\ p.pc = "recurse" /\ p.k = 3
           /\ p.directories[1] \in failed
           /\ Top.dir_url = p.directories[2]
    /\ Top.pc = "scan"
    /\ Top.dir_url \notin failed
    /\ Len(file_urls) >= 1

\* C8. Result order and idempotence: file_urls lists the file identifiers
\* observed on the fetched pages, each once, in the order in which they were
\* first observed, with the last path segment as the name.
C8_ResultOrder ==
    /\ Len(file_urls) = Len(seen)
    /\ \A j \in 1..Len(file_urls) :
          /\ j <= Len(seen) => file_urls[j].url = seen[j]
          /\ \A h \in 1..Len(file_urls) :
                file_urls[j].url = file_urls[h].url => j = h
          /\ \E href \in Webs[web].hrefs :
                /\ Classify[href].is_file
                /\ file_urls[j].url = Identifier(href)
                /\ file_urls[j].name = Classify[href].file_name

\* an identifier was observed again after it was recorded, and the crawl
\* has returned two files
C8_Witness ==
    /\ reseen
    /\ status = "done"
    /\ Len(file_urls) = 2

\* the distinct identifiers of the directory links among the first n
\* entries of page that pass the tests of the directory branch, in the order
\* of their first occurrence
RECURSIVE PassedDirs(_, _)
PassedDirs(page, n) ==
    IF n = 0 THEN <<>>
    ELSE LET d == PassedDirs(page, n - 1)
             c == Classify[page[n]]
         IN  IF c.is_dir /\ ~InList(c.full_dir_url, d)
             THEN Append(d, c.full_dir_url) ELSE d

\* C16. Branching cap and recursion order: a frame collects, in the order of
\* the page and only at a depth below 3, the distinct identifiers of the
\* directory links that pass the filter (on the listed page: all of them);
\* it calls explore_directory on the collected identifiers in that order, on
\* the first 10 at most, visited or not; a frame at depth 3 collects nothing
\* and makes no call.
C16_BranchCapAndOrder ==
    [][/\ Len(stack') = Len(stack) + 1 =>
             /\ Top.pc = "recurse" /\ Top.depth < 3
             /\ Top.k <= 10
             /\ stack'[Len(stack')] =
                    Frame(Top.directories[Top.k], Top.depth + 1)
             /\ stack'[Len(stack)] = [Top EXCEPT !.k = @ + 1]
       /\ (/\ stack # <<>> /\ Top.pc = "scan" /\ Len(stack') = Len(stack)
           /\ stack'[Len(stack)].pc = "scan") =>
             \/ stack'[Len(stack)].directories = Top.directories
             \/ /\ Top.depth < 3
                /\ \E href \in Webs[web].hrefs :
                      /\ Classify[href].is_dir
                      /\ ~InList(Classify[href].full_dir_url, Top.directories)
                      /\ stack'[Len(stack)].directories =
                            Append(Top.directories, Classify[href].full_dir_url)
       /\ (/\ Webs[web].page # <<>> /\ stack' # <<>>
           /\ stack'[1].pc = "scan") =>
             stack'[1].directories = PassedDirs(Webs[web].page, stack'[1].n)
       /\ \A j \in 1..Len(stack') :
             stack'[j].depth >= 3 =>
                 stack'[j].directories = <<>> /\ stack'[j].pc # "recurse"]_vars

\* on a page with eleven distinct directories the frame has called the first
\* ten, in their order, and is about to leave the eleventh
C16_Witness ==
    /\ stack # <<>> /\ Top.pc = "recurse"
    /\ Len(Top.directories) = 11
    /\ Top.k = 11
    /\ visited_urls = {repo_url} \cup {Top.directories[j] : j \in 1..10}
    /\ \A j \in 1..10 : BagIn(Top.directories[j], fetched)

\* u is an absolute URL without a query string and without a fragment
IsNormalised(u) ==
    /\ StartsWith(u, Host)
    /\ ~InList("?", u) /\ ~InList("#", u)

\* C18. Identifier normalisation: every key of file_urls and every
\* directory identifier on which explore_directory is called or which is in
\* visited_urls is an absolute URL with no query string and no fragment.
C18_IdentifierNormalised ==
    /\ \A j \in 1..Len(file_urls) : IsNormalised(file_urls[j].url)
    /\ \A u \in visited_urls : IsNormalised(u)
    /\ \A j \in 1..Len(stack) : IsNormalised(stack[j].dir_url)

\* C19. Visited-set discipline: no step removes an element of
\* visited_urls; a page.goto on a directory is issued only when the
\* directory is in visited_urls; a frame that returns on the quota or the
\* depth test leaves visited_urls as it is.
C19_VisitedDiscipline ==
    [][/\ visited_urls \subseteq visited_urls'
       /\ fetched' # fetched =>
             /\ stack # <<>> /\ Top.pc = "fetch"
             /\ fetched' = fetched (+) SetToBag({Top.dir_url})
             /\ Top.dir_url \in visited_urls
       /\ (/\ stack # <<>> /\ Top.pc = "enter"
           /\ (Len(file_urls) >= MAX_FILES_PER_REPO \/ Top.depth > 3)) =>
             visited_urls' = visited_urls /\ stack' = Pop
       /\ visited_urls' # visited_urls =>
             /\ stack # <<>> /\ Top.pc = "enter"
             /\ visited_urls' = visited_urls \cup {Top.dir_url}]_vars

\* a directory whose fetch failed is still in visited_urls while the page of
\* its sibling is read
C19_Witness ==
    /\ failed # {} /\ failed \subseteq visited_urls
    /\ Len(stack) >= 2 /\ Top.pc = "scan"
    /\ Top.dir_url \in visited_urls \ failed
    /\ \A j \in 1..Len(stack) : stack[j].dir_url \in visited_urls

\* C21. explore_directory is never called with a depth above 3: the root
\* call has depth 0, a call is made only by a frame of depth below 3 and
\* with that depth plus one, so no frame takes the return of the test
\* depth > 3 and every page is fetched at a depth in 0..3.
C21_DepthPruneUnreachable ==
    [][/\ \A j \in 1..Len(stack) : stack[j].depth \in 0..3
       /\ \A j \in 1..Len(stack') : stack'[j].depth \in 0..3
       /\ Len(stack') = Len(stack) + 1 =>
             /\ Top.depth < 3
             /\ stack'[Len(stack')].depth = Top.depth + 1
             /\ stack'[Len(stack')].pc = "enter"
       /\ (stack # <<>> /\ Top.pc = "enter") => ~(Top.depth > 3)
       /\ fetched' # fetched => stack # <<>> /\ Top.depth \in 0..3]_vars

\* a frame called at depth 3 has passed the tests at its head and is about
\* to fetch its page
C21_Witness ==
    /\ Len(stack) = 4
    /\ Top.depth = 3 /\ Top.pc = "fetch"
    /\ \A j \in 1..3 : stack[j].pc = "recurse" /\ stack[j].depth = j - 1

----------------------------------------------------------------------------
(* Properties of the scan *)

\* a pass of the loop has just read the line `line'`
ReadsLine == scan = "loop" /\ lineno' = lineno + 1

\* an empty or white-space-only line
IsBlankLine(l) == \A j \in 1..Len(l) : l[j] = Blank

\* the line just read was appended to comments, with its number
Emitted == comments' = Append(comments, <<lineno', RStrip(line')>>)

\* the scan state is as it was
SameScanState ==
    in_docstring' = in_docstring /\ docstring_char' = docstring_char

\* C9, as claimed. Blank-line asymmetry: a blank line met while a block
\* comment is open is emitted with its line number; a blank line met in
\* Code state is not emitted and does not change the scan state.
C9_BlankLineAsymmetry ==
    [][ReadsLine /\ IsBlankLine(line') =>
          IF in_docstring
          THEN Emitted
          ELSE comments' = comments /\ SameScanState]_vars

\* C9, amended. A blank line is never emitted and never changes the scan
\* state, whether a block comment is open or not.
C9_BlankLineSkipped ==
    [][ReadsLine /\ IsBlankLine(line') =>
          comments' = comments /\ SameScanState]_vars

\* a block comment is open, and the blank line just read was not emitted
C9_Witness ==
    /\ scan = "loop"
    /\ in_docstring
    /\ lineno >= 2
    /\ IsBlankLine(line)
    /\ comments # <<>>
    /\ comments[Len(comments)][1] < lineno

\* C10. Block close by presence: while a block comment of a style is open,
\* every line that holds the delimiter of that style is emitted and closes
\* the block, whatever else the line holds.
C10_BlockCloseByPresence ==
    [][ReadsLine /\ in_docstring /\ HasTok(line', docstring_char) =>
          Emitted /\ ~in_docstring']_vars

\* C11. Code-state delimiter rule: in Code state a non-blank line that does
\* not start with '#' and holds a block delimiter is emitted; the style is
\* the triple-double-quote one if that token is on the line, else the
\* triple-single-quote one; with exactly 2 occurrences of the chosen token
\* the scanner stays in Code, with any other count it is in the block of the
\* chosen style.
C11_CodeDelimiterRule ==
    [][/\ ReadsLine /\ ~in_docstring
       /\ Strip(line') # <<>> /\ Strip(line')[1] # Hash
       /\ (HasTok(line', DQ) \/ HasTok(line', SQ))
       => /\ Emitted
          /\ IF HasTok(line', DQ)
             THEN IF Count(line', DQ) = 2
                  THEN ~in_docstring'
                  ELSE in_docstring' /\ docstring_char' = DQ
             ELSE IF Count(line', SQ) = 2
                  THEN ~in_docstring'
                  ELSE in_docstring' /\ docstring_char' = SQ]_vars

\* a line with both delimiters, the triple-double-quote one twice, was read
\* in Code state after a one-line block, and the scanner is in Code state
C11_Witness ==
    /\ scan = "loop" /\ lineno = 2
    /\ line = <<SQ, DQ, DQ>>
    /\ comments = << <<1, <<DQ, Code, DQ>> >>, <<2, <<SQ, DQ, DQ>> >> >>
    /\ ~in_docstring

\* the line holds neither block delimiter
NoDelim(l) == ~HasTok(l, DQ) /\ ~HasTok(l, SQ)

\* the left-trimmed line starts with the single-line marker
StartsWithHash(l) == LStrip(l) # <<>> /\ LStrip(l)[1] = Hash

\* t is made of an opening line holding the delimiter c once and nothing of
\* the other style, k non-blank lines without a delimiter, a line holding c,
\* and then code lines only
IsBlockText(t, c, k) ==
    /\ Len(t) >= k + 2
    /\ Count(t[1], c) = 1 /\ Count(t[1], IF c = DQ THEN SQ ELSE DQ) = 0
    /\ ~StartsWithHash(t[1])
    /\ \A j \in 2..(k + 1) : NoDelim(t[j]) /\ ~IsBlankLine(t[j])
    /\ HasTok(t[k + 2], c)
    /\ \A j \in (k + 3)..Len(t) : NoDelim(t[j]) /\ ~StartsWithHash(t[j])

\* C12. Multi-line block scenario: for a text made of a line holding one
\* delimiter, k >= 0 non-blank lines without a delimiter, a line holding the
\* same delimiter, and then code lines, the scanner emits the lines 1..k+2
\* with their numbers and nothing else, and is in Code state from the closing
\* line on.
C12_BlockScenario ==
    \A c \in {DQ, SQ} : \A k \in 0..MaxLines :
        scan # "idle" /\ IsBlockText(lines, c, k) =>
            /\ comments = [j \in 1..(k + 2) |-> <<j, RStrip(lines[j])>>]
            /\ ~in_docstring

\* no line of t starts with '#' after left-trimming or holds a delimiter
IsPureCode(t) ==
    \A j \in 1..Len(t) : NoDelim(t[j]) /\ ~StartsWithHash(t[j])

\* C13. Pure-code input yields nothing: as long as no line read starts with
\* '#' or holds a block delimiter, comments is empty and the scanner is in
\* Code state; so the call returns the empty list.
C13_PureCodeYieldsNothing ==
    scan # "idle" /\ IsPureCode(lines) => comments = <<>> /\ ~in_docstring

\* the scan of a text of three lines of code, one of them with a '#' after
\* the code and one blank, has returned
C13_Witness ==
    /\ scan = "returned"
    /\ Len(lines) >= 3
    /\ IsPureCode(lines)
    /\ InList(<<Code, Hash>>, lines)
    /\ InList(<<Blank>>, lines)
    /\ comments = <<>>

\* C14. ScanState invariant: in_docstring implies docstring_char is not
\* None, and every call starts with in_docstring = False and
\* docstring_char = None, however the call before it ended.
C14_ScanStateInvariant ==
    /\ in_docstring => docstring_char # None
    /\ docstring_char = None => ~in_docstring
    /\ scan = "loop" /\ lineno = 0 => ~in_docstring /\ docstring_char = None

\* the call before this one returned inside a block, and this call has read
\* a line of code in Code state without emitting it
C14_Witness ==
    /\ scan = "loop" /\ prev_open
    /\ lineno = 1 /\ line = <<Code>>
    /\ ~in_docstring /\ docstring_char = None
    /\ comments = <<>>

----------------------------------------------------------------------------
(* Properties of main *)

\* a pass of the loop over the files has just ended
EndsPass == main = "files" /\ file_num' = file_num + 1

\* C15. File-text failure is scoped to one file: when the pass of a file
\* raises, or its text is empty or not longer than 10 characters, no row is
\* added to all_comments, the rows collected before are as they were, the
\* counters of the repo and the discovered files are unchanged, and the loop
\* goes on with the next file.
C15_FileFailureScoped ==
    [][/\ EndsPass
       /\ \/ file_num' \in file_errors'
          \/ code_text' = EmptyText
          \/ TextLen(code_text') <= MinTextLen
       => /\ all_comments' = all_comments
          /\ summary' = summary
          /\ summary'.files_found = Len(file_urls)
          /\ file_urls' = file_urls
          /\ main' = "files"]_vars

\* the first pass raised, the second read a text of 10 characters, and the
\* third file was scanned and its comments recorded
C15_Witness ==
    /\ main = "files" /\ file_num = 3
    /\ file_errors = {1}
    /\ summary.files_processed = 1
    /\ summary.files_found = Len(file_urls)
    /\ TextLen(code_text) > MinTextLen
    /\ all_comments # <<>>
    /\ \A j \in 1..Len(all_comments) : all_comments[j][2] = file_urls[3].name

----------------------------------------------------------------------------
(* Further properties of the scan *)

\* C17. No nesting across styles: while a block of one style is open, a line
\* that holds the delimiter of the other style and not the one of the open
\* style is emitted and leaves the block open with its style.
C17_NoNestingAcrossStyles ==
    [][/\ ReadsLine /\ in_docstring
       /\ HasTok(line', IF docstring_char = DQ THEN SQ ELSE DQ)
       /\ ~HasTok(line', docstring_char)
       => Emitted /\ SameScanState]_vars

\* in a block opened by the triple-double-quote delimiter, a line with two
\* triple-single-quote delimiters was emitted and the block is still open
C17_Witness ==
    /\ scan = "loop" /\ lineno = 2
    /\ lines = << <<DQ>>, <<SQ, SQ>> >>
    /\ comments = << <<1, <<DQ>> >>, <<2, <<SQ, SQ>> >> >>
    /\ in_docstring /\ docstring_char = DQ

\* C20. Output numbering: the line numbers of comments are strictly
\* increasing positions of lines of the text, blank lines counted, and the
\* text of each pair is the line at that position without its trailing
\* white space and with nothing else removed.
C20_OutputNumbering ==
    \A j \in 1..Len(comments) :
        /\ comments[j][1] \in 1..Len(lines)
        /\ j > 1 => comments[j - 1][1] < comments[j][1]
        /\ LET l == lines[comments[j][1]]
               t == comments[j][2]
           IN  /\ Len(t) <= Len(l) /\ SubSeq(l, 1, Len(t)) = t
               /\ \A h \in (Len(t) + 1)..Len(l) : l[h] = Blank
               /\ t # <<>> /\ t[Len(t)] # Blank

\* of three lines the first and the third were emitted, the third without
\* its trailing white space, and the second, a line of code, was not
C20_Witness ==
    /\ scan = "returned"
    /\ lines = << <<Blank, Hash>>, <<Code, Blank>>, <<SQ, Blank>> >>
    /\ comments = << <<1, <<Blank, Hash>> >>, <<3, <<SQ>> >> >>

====
